---- MODULE Spec2Model ----
(***************************************************************************)
(* A model of nerdconvert.py: the table combiner, the field-spec           *)
(* interpreter, the filename template expander, the record filter, the     *)
(* svg exporter and the data sources' table keys.                          *)
(*                                                                         *)
(* Representation.  A Python str value is a sequence of one-character      *)
(* strings (<<"m","d">> is "md"); dictionary keys, field names and         *)
(* modifier names are atomic strings.  A Python value is a record          *)
(* [t, s, n, l]: the type and the payload.   A dict is a function whose  *)
(* DOMAIN is its key set.  The outcome of a call is [ok |-> TRUE, val]     *)
(* or [ok |-> FALSE, err] with err the name of the exception raised.       *)
(***************************************************************************)
EXTENDS Integers, Sequences, FiniteSets, TLC

VARIABLES
    pc,                 \* position of the call under study
    result,             \* what the call returned (or the exception it raised)
    tables,             \* combine_tables: *tables
    field_description,  \* FieldFormatter.__init__: field_description
    rename,             \* FieldFormatter.__init__: rename
    value,              \* FieldFormatter.apply_modifiers: value
    field_descriptions, \* RecordFormatter.__init__: field_descriptions
    record,             \* RecordFormatter.format: record
    string,             \* to_camel_case: string
    data,               \* filter_records / export_svg: data (list of records)
    filters,            \* filter_records: filters
    filepath,           \* export_svg: filepath
    filename_formatter, \* export_svg: filename_formatter
    index,              \* export_svg: position of the for loop in data
    files,              \* the file system: path -> content of the file
    dirs,               \* the file system: directories made by os.makedirs
    copied,             \* the shutil.copy calls made so far: <<src, dst>>
    entry_data,         \* export_svg: data as it was when the call was made
    calls,              \* how many export_svg calls were made
    glyphs,             \* create_raw_data: get_glyphs(font)
    css                 \* extract_from_css: the (code, name) pairs of the file

vars == <<pc, result, tables, field_description, rename, value,
          field_descriptions, record, string, data, filters, filepath,
          filename_formatter, index, files, dirs, copied, entry_data, calls,
          glyphs, css>>

\* Value of a variable the specification at hand does not use.
Unused == <<>>

Ok(v) == [ok |-> TRUE, val |-> v]
Raise(e) == [ok |-> FALSE, err |-> e]

StrVal(s) == [t |-> "str", s |-> s, n |-> 0, l |-> <<>>]
IntVal(n) == [t |-> "int", s |-> <<>>, n |-> n, l |-> <<>>]
ListVal(l) == [t |-> "list", s |-> <<>>, n |-> 0, l |-> l]

(***************************************************************************)
(* Characters                                                              *)
(***************************************************************************)
\* str.upper() / str.lower() on one character
UpperChar(c) == CASE c = "a" -> "A" [] c = "b" -> "B" [] c = "e" -> "E"
                  [] c = "m" -> "M" [] c = "d" -> "D" [] OTHER -> c
LowerChar(c) == CASE c = "A" -> "a" [] c = "B" -> "b" [] c = "E" -> "e"
                  [] c = "M" -> "m" [] c = "D" -> "d" [] OTHER -> c

\* Atoms that stand for several characters: field names, modifier names and
\* other words made of letters only
Names == {"code", "name", "glyphname", "iconname", "group", "glyph",
          "svgfile", "viewbox", "paths", "camelcase", "upper", "lower",
          "bogus", "x", "out", "svg"}
Letters == {"a", "b", "e", "m", "d", "A", "B", "E", "M", "D", "U"}
Digits == {"0", "1", "2", "3", "4", "5", "9"}

\* the class [a-zA-Z] of the patterns of FilenameFormatter
IsAlpha(c) == c \in Letters \cup Names
\* the class [-_] of the pattern of to_camel_case
IsSep(c) == c \in {"-", "_"}
\* the class \w: letters, digits and the underscore
IsWord(c) == IsAlpha(c) \/ c \in Digits \/ c = "_"

upper(s) == [i \in 1..Len(s) |-> UpperChar(s[i])]
lower(s) == [i \in 1..Len(s) |-> LowerChar(s[i])]

(***************************************************************************)
(* to_camel_case: re.sub(r'(.*?)[-_](\w)', camel, string).  From position  *)
(* i the lazy group stops at the first separator that a \w character       *)
(* follows; the match is replaced by group 1 and the upper-cased group 2,  *)
(* and the scan resumes after the match.  Text no match covers is copied.  *)
(***************************************************************************)
\* positions j >= i where [-_](\w) matches
SepMatches(s, i) == {j \in i..(Len(s) - 1) : IsSep(s[j]) /\ IsWord(s[j + 1])}

Least(S) == CHOOSE x \in S : \A y \in S : x <= y

\* a mutant of camel: group 2 is appended as it stands
CamelKeepsCase(group1, group2) == group1 \o <<group2>>

\* camel(match): group(1) + group(2).upper()
camel(group1, group2) == group1 \o <<UpperChar(group2)>>

RECURSIVE CamelFrom(_, _)
CamelFrom(s, i) ==
    IF SepMatches(s, i) = {}
    THEN SubSeq(s, i, Len(s))
    ELSE LET j == Least(SepMatches(s, i))
         IN  camel(SubSeq(s, i, j - 1), s[j + 1]) \o CamelFrom(s, j + 2)

to_camel_case(s) == CamelFrom(s, 1)

(***************************************************************************)
(* combine_tables                                                          *)
(***************************************************************************)
\* a mutant of combine_dict: {**b, **a}, the earlier table wins
CombineDictFirstWins(a, b) ==
    [f \in DOMAIN a \cup DOMAIN b |-> IF f \in DOMAIN a THEN a[f] ELSE b[f]]

\* combine_dict(a, b): {**a, **b}
combine_dict(a, b) ==
    [f \in DOMAIN a \cup DOMAIN b |-> IF f \in DOMAIN b THEN b[f] ELSE a[f]]

\* the empty dict {}
EmptyDict == [f \in {} |-> Unused]

\* t.get(key, {})
GetOrEmpty(t, key) == IF key \in DOMAIN t THEN t[key] ELSE EmptyDict

\* functools.reduce(combine_dict, seq) without an initial value
RECURSIVE ReduceFrom(_, _, _)
ReduceFrom(acc, seq, i) ==
    IF i > Len(seq) THEN acc
    ELSE ReduceFrom(combine_dict(acc, seq[i]), seq, i + 1)

reduce(seq) ==
    IF seq = <<>> THEN Raise("TypeError") ELSE Ok(ReduceFrom(seq[1], seq, 2))

combine_tables(ts) ==
    LET keys == UNION {DOMAIN ts[i] : i \in 1..Len(ts)}
        fold(key) == reduce([i \in 1..Len(ts) |-> GetOrEmpty(ts[i], key)])
    IN  IF \E key \in keys : ~fold(key).ok
        THEN Raise("TypeError")
        ELSE Ok([key \in keys |-> fold(key).val])

(***************************************************************************)
(* The modifier registry and FieldFormatter                                *)
(***************************************************************************)
\* the keys of the module-level dict modifiers
modifiers == {"camelcase", "upper", "lower"}

\* modifiers[m](value): the str methods and re.sub raise on an int or a list
ApplyModifier(m, val) ==
    IF val.t # "str"
    THEN Raise(IF m = "camelcase" THEN "TypeError" ELSE "AttributeError")
    ELSE Ok(StrVal(CASE m = "camelcase" -> to_camel_case(val.s)
                  [] m = "upper" -> upper(val.s)
                  [] m = "lower" -> lower(val.s)))

(***************************************************************************)
(* A field description is a sequence of atoms: ":" and the maximal runs of *)
(* other characters between the colons ("name:x" is <<"name", ":", "x">>). *)
(***************************************************************************)
\* the str a run of atoms between two colons spells
Atom(piece) == IF piece = <<>> THEN "" ELSE piece[1]

\* field_description.split(':')
RECURSIVE SplitFrom(_, _, _)
SplitFrom(d, i, cur) ==
    IF i > Len(d) THEN <<Atom(cur)>>
    ELSE IF d[i] = ":" THEN <<Atom(cur)>> \o SplitFrom(d, i + 1, <<>>)
    ELSE SplitFrom(d, i + 1, cur \o <<d[i]>>)

split(d) == SplitFrom(d, 1, <<>>)

\* [modifiers[m] for m in field[from:] if m in modifiers]
RECURSIVE RegisteredFrom(_, _)
RegisteredFrom(field, from) ==
    IF from > Len(field) THEN <<>>
    ELSE (IF field[from] \in modifiers THEN <<field[from]>> ELSE <<>>)
         \o RegisteredFrom(field, from + 1)

\* a mutant of FieldFormatter: the rename flag is ignored
FieldFormatterAlwaysRenames(fd, rn) ==
    LET field == split(fd)
    IN  [name |-> field[1],
         new_name |-> IF Len(field) > 1 THEN field[2] ELSE field[1],
         modifiers |-> RegisteredFrom(field, 3)]

\* FieldFormatter.__init__(field_description, rename)
FieldFormatter(fd, rn) ==
    LET field == split(fd)
    IN  IF rn
        THEN [name |-> field[1],
              new_name |-> IF Len(field) > 1 THEN field[2] ELSE field[1],
              modifiers |-> RegisteredFrom(field, 3)]
        ELSE [name |-> field[1],
              new_name |-> field[1],
              modifiers |-> RegisteredFrom(field, 2)]

\* FieldFormatter.apply_modifiers(value), self.modifiers = mods
RECURSIVE ApplyModifiersFrom(_, _, _)
ApplyModifiersFrom(mods, val, i) ==
    IF i > Len(mods) THEN Ok(val)
    ELSE LET r == ApplyModifier(mods[i], val)
         IN  IF r.ok THEN ApplyModifiersFrom(mods, r.val, i + 1) ELSE r

apply_modifiers(mods, val) == ApplyModifiersFrom(mods, val, 1)

\* bool(value)
Truthy(val) == CASE val.t = "str" -> val.s # <<>>
                 [] val.t = "int" -> val.n # 0
                 [] val.t = "list" -> val.l # <<>>

\* what FieldFormatter.format returns: None, or the pair (name, value)
None == [some |-> FALSE]
Pair(n, v) == [some |-> TRUE, name |-> n, value |-> v]

\* a mutant of FieldFormatter.format: only a missing field yields None
FieldFormatKeepsFalsy(f, rec) ==
    IF f.name \in DOMAIN rec
    THEN LET r == apply_modifiers(f.modifiers, rec[f.name])
         IN  IF r.ok THEN Ok(Pair(f.new_name, r.val)) ELSE r
    ELSE Ok(None)

\* FieldFormatter.format(record)
FieldFormat(f, rec) ==
    IF f.name \in DOMAIN rec /\ Truthy(rec[f.name])
    THEN LET r == apply_modifiers(f.modifiers, rec[f.name])
         IN  IF r.ok THEN Ok(Pair(f.new_name, r.val)) ELSE r
    ELSE Ok(None)

\* [f.format(record) for f in field_formatters]: the first exception ends it
FormattedFields(fs, rec) ==
    LET each == [i \in 1..Len(fs) |-> FieldFormat(fs[i], rec)]
        bad == {i \in 1..Len(fs) : ~each[i].ok}
    IN  IF bad = {} THEN Ok([i \in 1..Len(fs) |-> each[i].val])
        ELSE each[Least(bad)]

\* {f[0]: f[1] for f in formatted_fields if f}: a later pair replaces an
\* earlier one of the same name
DictOfPairs(pairs) ==
    LET kept == {i \in 1..Len(pairs) : pairs[i].some}
        Last(n) == CHOOSE i \in kept :
                     /\ pairs[i].name = n
                     /\ \A j \in kept : pairs[j].name = n => j <= i
    IN  [n \in {pairs[i].name : i \in kept} |-> pairs[Last(n)].value]

\* RecordFormatter.__init__(field_descriptions)
RecordFormatter(fds) == [i \in 1..Len(fds) |-> FieldFormatter(fds[i], TRUE)]

\* RecordFormatter.format(record)
RecordFormat(fs, rec) ==
    LET formatted_fields == FormattedFields(fs, rec)
    IN  IF formatted_fields.ok THEN Ok(DictOfPairs(formatted_fields.val))
        ELSE formatted_fields

(***************************************************************************)
(* match_filters / filter_records.  A pattern is a sequence of pattern     *)
(* atoms: "." (any character), "$" (the end of the string) and literal     *)
(* characters.  re.match anchors the pattern at the start of the string    *)
(* and lets the string go on after the match.                              *)
(***************************************************************************)
RECURSIVE MatchAt(_, _, _, _)
MatchAt(p, i, s, j) ==
    IF i > Len(p) THEN TRUE
    ELSE IF p[i] = "$" THEN j = Len(s) + 1 /\ MatchAt(p, i + 1, s, j)
    ELSE IF p[i] = "." THEN j <= Len(s) /\ MatchAt(p, i + 1, s, j + 1)
    ELSE j <= Len(s) /\ s[j] = p[i] /\ MatchAt(p, i + 1, s, j + 1)

\* a mutant of re.match: re.fullmatch, the pattern must cover the string
ReFullMatch(p, val) ==
    IF val.t # "str" THEN Raise("TypeError")
    ELSE Ok(MatchAt(p \o <<"$">>, 1, val.s, 1))

\* re.match(pattern, value): a TypeError unless value is a str
ReMatch(p, val) ==
    IF val.t # "str" THEN Raise("TypeError") ELSE Ok(MatchAt(p, 1, val.s, 1))

\* a mutant of match_filters: the loop does not stop at a failed predicate
RECURSIVE MatchFiltersNoEarlyReturn(_, _, _)
MatchFiltersNoEarlyReturn(rec, fl, i) ==
    IF i > Len(fl) THEN Ok(TRUE)
    ELSE IF fl[i][1] \notin DOMAIN rec THEN Raise("KeyError")
    ELSE LET m == ReMatch(fl[i][2], rec[fl[i][1]])
             rest == MatchFiltersNoEarlyReturn(rec, fl, i + 1)
         IN  IF ~m.ok THEN m
             ELSE IF ~rest.ok THEN rest
             ELSE Ok(m.val /\ rest.val)

\* match_filters(record, filters), from the i-th filter on
RECURSIVE MatchFiltersFrom(_, _, _)
MatchFiltersFrom(rec, fl, i) ==
    IF i > Len(fl) THEN Ok(TRUE)
    ELSE IF fl[i][1] \notin DOMAIN rec THEN Raise("KeyError")
    ELSE LET m == ReMatch(fl[i][2], rec[fl[i][1]])
         IN  IF ~m.ok THEN m
             ELSE IF ~m.val THEN Ok(FALSE)
             ELSE MatchFiltersFrom(rec, fl, i + 1)

match_filters(rec, fl) == MatchFiltersFrom(rec, fl, 1)

\* filter_records(data, filters): the list comprehension, record by record
RECURSIVE FilterFrom(_, _, _)
FilterFrom(d, fl, i) ==
    IF i > Len(d) THEN Ok(<<>>)
    ELSE LET m == match_filters(d[i], fl)
         IN  IF ~m.ok THEN m
             ELSE LET rest == FilterFrom(d, fl, i + 1)
                  IN  IF ~rest.ok THEN rest
                      ELSE Ok((IF m.val THEN <<d[i]>> ELSE <<>>) \o rest.val)

filter_records(d, fl) == FilterFrom(d, fl, 1)

(***************************************************************************)
(* Paths and templates.  A path or template is a str: a sequence of atoms, *)
(* among them "/", "{", "}", ":" and the extension ".svg".                 *)
(***************************************************************************)
Slashes(p) == {i \in 1..Len(p) : p[i] = "/"}
Greatest(S) == CHOOSE x \in S : \A y \in S : y <= x

\* head.rstrip('/')
RECURSIVE RStripSlash(_)
RStripSlash(p) ==
    IF p # <<>> /\ p[Len(p)] = "/" THEN RStripSlash(SubSeq(p, 1, Len(p) - 1))
    ELSE p

\* os.path.split(p): <<head, tail>>
PathSplit(p) ==
    LET i == IF Slashes(p) = {} THEN 0 ELSE Greatest(Slashes(p))
        head == SubSeq(p, 1, i)
        tail == SubSeq(p, i + 1, Len(p))
    IN  <<IF head # <<>> /\ Slashes(head) # 1..Len(head)
          THEN RStripSlash(head) ELSE head, tail>>

\* os.path.dirname(p)
Dirname(p) == PathSplit(p)[1]

\* os.path.join(a, b)
PathJoin(a, b) ==
    IF b # <<>> /\ b[1] = "/" THEN b
    ELSE IF a = <<>> \/ a[Len(a)] = "/" THEN a \o b
    ELSE a \o <<"/">> \o b

\* path.endswith(extension), the extension being one atom
EndsWith(p, extension) == p # <<>> /\ p[Len(p)] = extension

\* the while loop of split_path: <<dirname, filename>>
RECURSIVE PeelPlaceholders(_, _)
PeelPlaceholders(dirname, filename) ==
    IF \E i \in 1..Len(dirname) : dirname[i] = "{"
    THEN LET sp == PathSplit(dirname)
         IN  PeelPlaceholders(sp[1], PathJoin(sp[2], filename))
    ELSE <<dirname, filename>>

\* split_path(path, extension, default_filename), both given
split_path(path, extension, default_filename) ==
    LET full == IF ~EndsWith(path, extension)
                THEN PathJoin(path, default_filename \o <<extension>>)
                ELSE path
        sp == PathSplit(full)
    IN  PeelPlaceholders(sp[1], sp[2])

(***************************************************************************)
(* FilenameFormatter                                                       *)
(***************************************************************************)
\* the end of the run [a-zA-Z:]* that starts at position from
RECURSIVE ClassEnd(_, _)
ClassEnd(s, from) ==
    IF from <= Len(s) /\ (IsAlpha(s[from]) \/ s[from] = ":")
    THEN ClassEnd(s, from + 1) ELSE from

\* whether \{(\w+)[a-zA-Z:]*\} matches at position i
SubMatches(s, i) ==
    /\ s[i] = "{"
    /\ i + 1 <= Len(s) /\ IsWord(s[i + 1])
    /\ ClassEnd(s, i + 2) <= Len(s) /\ s[ClassEnd(s, i + 2)] = "}"

\* re.sub(r'\{(\w+)[a-zA-Z:]*\}', r'{\1}', filename)
RECURSIVE SubFrom(_, _)
SubFrom(s, i) ==
    IF i > Len(s) THEN <<>>
    ELSE IF SubMatches(s, i)
    THEN <<"{", s[i + 1], "}">> \o SubFrom(s, ClassEnd(s, i + 2) + 1)
    ELSE <<s[i]>> \o SubFrom(s, i + 1)

\* whether \{([a-zA-Z:]+)\} matches at position i
FindMatches(s, i) ==
    /\ s[i] = "{"
    /\ ClassEnd(s, i + 1) > i + 1
    /\ ClassEnd(s, i + 1) <= Len(s) /\ s[ClassEnd(s, i + 1)] = "}"

\* re.findall(r'\{([a-zA-Z:]+)\}', filename)
RECURSIVE FindAllFrom(_, _)
FindAllFrom(s, i) ==
    IF i > Len(s) THEN <<>>
    ELSE IF FindMatches(s, i)
    THEN <<SubSeq(s, i + 1, ClassEnd(s, i + 1) - 1)>>
         \o FindAllFrom(s, ClassEnd(s, i + 1) + 1)
    ELSE FindAllFrom(s, i + 1)

\* FilenameFormatter.__init__(filename)
FilenameFormatter(filename) ==
    LET descriptions == FindAllFrom(filename, 1)
    IN  [format_string |-> SubFrom(filename, 1),
         field_formatters |-> [i \in 1..Len(descriptions) |->
                                 FieldFormatter(descriptions[i], FALSE)]]

\* str(n) of a small int
IntStr(n) == <<CASE n = 0 -> "0" [] n = 1 -> "1" [] n = 2 -> "2"
                 [] n = 3 -> "3" [] n = 4 -> "4" [] n = 5 -> "5"
                 [] OTHER -> "9">>

\* ', '.join(repr(x) for x in l)
RECURSIVE ReprItems(_)
ReprItems(l) ==
    IF l = <<>> THEN <<>>
    ELSE <<"'">> \o l[1] \o <<"'">>
         \o (IF Len(l) > 1 THEN <<",", " ">> ELSE <<>>) \o ReprItems(Tail(l))

\* format(value, ''): what str.format puts in a replacement field
PyStr(val) == CASE val.t = "str" -> val.s
                [] val.t = "int" -> IntStr(val.n)
                [] val.t = "list" -> <<"[">> \o ReprItems(val.l) \o <<"]">>

\* a mutant of str.format: a missing field is rendered as the text None
RECURSIVE StrFormatNoneFrom(_, _, _)
StrFormatNoneFrom(s, repl, i) ==
    IF i > Len(s) THEN Ok(<<>>)
    ELSE IF s[i] = "{" /\ i + 2 <= Len(s) /\ s[i + 2] = "}"
    THEN LET rest == StrFormatNoneFrom(s, repl, i + 3)
         IN  Ok((IF s[i + 1] \in DOMAIN repl THEN PyStr(repl[s[i + 1]])
                 ELSE <<"None">>) \o rest.val)
    ELSE LET rest == StrFormatNoneFrom(s, repl, i + 1)
         IN  Ok(<<s[i]>> \o rest.val)

\* format_string.format(**replacements): a field {name} is looked up in the
\* keyword arguments; a brace that opens no such field is a ValueError
RECURSIVE StrFormatFrom(_, _, _)
StrFormatFrom(s, repl, i) ==
    IF i > Len(s) THEN Ok(<<>>)
    ELSE IF s[i] \notin {"{", "}"}
    THEN LET rest == StrFormatFrom(s, repl, i + 1)
         IN  IF rest.ok THEN Ok(<<s[i]>> \o rest.val) ELSE rest
    ELSE IF s[i] = "{" /\ i + 2 <= Len(s) /\ s[i + 2] = "}"
            /\ s[i + 1] \notin {"{", "}"}
    THEN IF s[i + 1] \notin DOMAIN repl THEN Raise("KeyError")
         ELSE LET rest == StrFormatFrom(s, repl, i + 3)
              IN  IF rest.ok THEN Ok(PyStr(repl[s[i + 1]]) \o rest.val)
                  ELSE rest
    ELSE Raise("ValueError")

\* FilenameFormatter.format(record)
FilenameFormat(ff, rec) ==
    LET formatted_fields == FormattedFields(ff.field_formatters, rec)
    IN  IF ~formatted_fields.ok THEN formatted_fields
        ELSE StrFormatFrom(ff.format_string,
                           DictOfPairs(formatted_fields.val), 1)

(***************************************************************************)
(* export_svg and the file system it acts on: files maps the path of each  *)
(* regular file to its content, dirs is the set of directories.            *)
(***************************************************************************)
\* dirname and the directories above it
Ancestors(dirname) ==
    {RStripSlash(SubSeq(dirname, 1, i)) : i \in (Slashes(dirname) \ {1}) \cup {Len(dirname)}}

\* os.makedirs(dirname, exist_ok=True): the directories afterwards
MakeDirs(dirname, fs_files, fs_dirs) ==
    IF dirname = <<>> THEN Raise("FileNotFoundError")
    ELSE IF dirname \in DOMAIN fs_files THEN Raise("FileExistsError")
    ELSE Ok(fs_dirs \cup Ancestors(dirname))

\* shutil.copy(src, dst): the files afterwards; into dst when dst is a directory
Copy(src, dst, fs_files, fs_dirs) ==
    LET real == IF dst \in fs_dirs THEN PathJoin(dst, PathSplit(src)[2]) ELSE dst
    IN  IF src \notin DOMAIN fs_files THEN Raise("FileNotFoundError")
        ELSE IF src = real THEN Raise("SameFileError")
        ELSE Ok([f \in DOMAIN fs_files \cup {real} |->
                   IF f = real THEN fs_files[src] ELSE fs_files[f]])

\* what one pass of the loop of export_svg leaves behind
Pass(res, rec, fs_files, fs_dirs, copy) ==
    [result |-> res, record |-> rec, files |-> fs_files, dirs |-> fs_dirs,
     copied |-> copy]

\* a mutant of the last statement of the loop body: the record keeps its
\* svgfile
AssignKeepsSvgfile(filename, done, rec, fs_dirs) ==
    Pass(Ok(filename), rec, done.val, fs_dirs, << <<rec["svgfile"].s, filename>> >>)

\* record['svgfile'] = filename, after the copy
AssignSvgfile(filename, done, rec, fs_dirs) ==
    Pass(Ok(filename), [rec EXCEPT !["svgfile"] = StrVal(filename)],
         done.val, fs_dirs, << <<rec["svgfile"].s, filename>> >>)

\* shutil.copy(record['svgfile'], filename), after the directories are made
CopySvgfile(filename, done, rec, fs_files, fs_dirs) ==
    IF ~done.ok THEN Pass(done, rec, fs_files, fs_dirs, <<>>)
    ELSE AssignSvgfile(filename, done, rec, fs_dirs)

\* os.makedirs(os.path.dirname(filename), exist_ok=True) and what follows it
AfterMakeDirs(filename, made, rec, fs_files, fs_dirs) ==
    IF ~made.ok THEN Pass(made, rec, fs_files, fs_dirs, <<>>)
    ELSE IF "svgfile" \notin DOMAIN rec
    THEN Pass(Raise("KeyError"), rec, fs_files, made.val, <<>>)
    ELSE CopySvgfile(filename, Copy(rec["svgfile"].s, filename, fs_files, made.val),
                     rec, fs_files, made.val)

\* filename = filename_formatter.format(record) and what follows it
AfterFormat(filename, rec, fs_files, fs_dirs) ==
    IF ~filename.ok THEN Pass(filename, rec, fs_files, fs_dirs, <<>>)
    ELSE AfterMakeDirs(filename.val,
                       MakeDirs(Dirname(filename.val), fs_files, fs_dirs),
                       rec, fs_files, fs_dirs)

\* the body of the for loop of export_svg, on one record
ExportRecord(ff, rec, fs_files, fs_dirs) ==
    AfterFormat(FilenameFormat(ff, rec), rec, fs_files, fs_dirs)

\* the arguments export_svg gives split_path
Extension == ".svg"
DefaultFilename == <<"{", "code", "}", "_", "{", "name", "}">>

\* the first statements of export_svg: the FilenameFormatter of the path
ExportFormatter(path) ==
    LET sp == split_path(path, Extension, DefaultFilename)
    IN  FilenameFormatter(PathJoin(sp[1], sp[2]))

(***************************************************************************)
(* The data sources.  A glyph is [codepoint, glyphname], its codepoint the *)
(* str "U+..." or empty; the css file is the sequence of its icon rules,   *)
(* each [name, code]: what the two findall calls of extract_from_css pick  *)
(* up, rule by rule.                                                       *)
(***************************************************************************)
\* get_code(glyph): glyph.codepoint[2:].lower()
get_code(glyph) == lower(SubSeq(glyph.codepoint, 3, Len(glyph.codepoint)))

\* get_glyphs(font): the glyphs with a codepoint
get_glyphs(font_glyphs) == SelectSeq(font_glyphs, LAMBDA g : g.codepoint # <<>>)

\* what glyph.export(svgfile) writes: an svg with the glyph's outline
ExportedSvg(glyph) == [viewBox |-> <<"0">>, d |-> <<glyph.glyphname>>]

\* generate_svgs(glyphs, svgdirectory): the table it returns
generate_svgs(gs, svgdirectory) ==
    [key \in {IntStr(n) : n \in 1..Len(gs)} |->
        [svgfile |-> StrVal(svgdirectory \o key \o <<".svg">>)]]

\* generate_svgs(glyphs, svgdirectory): the files glyph.export writes
GeneratedFiles(gs, svgdirectory) ==
    [f \in {svgdirectory \o IntStr(n) \o <<".svg">> : n \in 1..Len(gs)} |->
        ExportedSvg(gs[CHOOSE n \in 1..Len(gs) : f = svgdirectory \o IntStr(n) \o <<".svg">>])]

\* extract_from_glyph(glyph)
extract_from_glyph(glyph) ==
    [code |-> StrVal(get_code(glyph)), glyphname |-> StrVal(<<glyph.glyphname>>)]

\* {g['code']: g for g in result}: the last glyph of a code stays
extract_from_glyphs(gs) ==
    [key \in {get_code(gs[n]) : n \in 1..Len(gs)} |->
        extract_from_glyph(gs[Greatest({n \in 1..Len(gs) : get_code(gs[n]) = key})])]

\* name.split('-'), the name a sequence of atoms
RECURSIVE SplitDash(_, _, _)
SplitDash(d, i, cur) ==
    IF i > Len(d) THEN <<cur>>
    ELSE IF d[i] = "-" THEN <<cur>> \o SplitDash(d, i + 1, <<>>)
    ELSE SplitDash(d, i + 1, cur \o <<d[i]>>)

\* extract_from_css: zip(*...) cuts the split names to the shortest of them,
\* and the unpacking into groups and iconnames needs exactly two parts
extract_from_css(rules) ==
    LET parts == [n \in 1..Len(rules) |-> SplitDash(rules[n].name, 1, <<>>)]
        shortest == IF rules = <<>> THEN 0
                    ELSE Least({Len(parts[n]) : n \in 1..Len(rules)})
    IN  IF shortest # 2 THEN Raise("ValueError")
        ELSE Ok([key \in {rules[n].code : n \in 1..Len(rules)} |->
                   LET n == Greatest({m \in 1..Len(rules) : rules[m].code = key})
                   IN  [code |-> StrVal(key), name |-> StrVal(rules[n].name),
                        group |-> StrVal(parts[n][1]),
                        iconname |-> StrVal(parts[n][2])]])

\* extract_from_svg(svgfilepath), the file's content given
extract_from_svg(svg) == [viewbox |-> StrVal(svg.viewBox), paths |-> ListVal(<<svg.d>>)]

\* extract_from_svgs(svgfiles)
extract_from_svgs(svgfiles, fs_files) ==
    [key \in DOMAIN svgfiles |-> extract_from_svg(fs_files[svgfiles[key]["svgfile"].s])]

(***************************************************************************)
(* Specifications.  Each one draws the arguments of one entry point from   *)
(* a bounded set and runs it; the variables of the other entry points      *)
(* stay Unused.                                                            *)
(***************************************************************************)
IdleCombine == tables = Unused
IdleField == field_description = Unused /\ rename = Unused /\ value = Unused
IdleRecord == field_descriptions = Unused /\ record = Unused
IdleCamel == string = Unused
IdleFilter == filters = Unused
IdleExport ==
    /\ filepath = Unused /\ filename_formatter = Unused /\ index = Unused
    /\ files = Unused /\ dirs = Unused /\ copied = Unused
    /\ entry_data = Unused /\ calls = Unused
IdleSources == glyphs = Unused /\ css = Unused

\* all sequences over S of length lo..hi
SeqsOf(S, lo, hi) == UNION {[1..n -> S] : n \in lo..hi}

\* all dicts with keys among K and values in V
DictsOf(K, V) == UNION {[D -> V] : D \in SUBSET K}

(***************************************************************************)
(* SpecCombine: combine_tables(tables)                                     *)
(***************************************************************************)
MaxTables == 2

Codes == {<<"e", "9">>, <<"e", "a">>}

\* the partial records a table may hold for a code
PartialRecords ==
    {r \in DictsOf({"name", "glyph"}, {StrVal(<<"a">>), StrVal(<<"b">>), IntVal(0)}) :
        /\ "name" \in DOMAIN r => r["name"].t = "str"
        /\ "glyph" \in DOMAIN r => r["glyph"].t = "int"}

InitCombine ==
    /\ pc = "call" /\ result = Unused
    /\ tables \in SeqsOf(DictsOf(Codes, PartialRecords), 0, MaxTables)
    /\ data = Unused
    /\ IdleField /\ IdleRecord /\ IdleCamel /\ IdleFilter /\ IdleExport
    /\ IdleSources

CombineTables ==
    /\ pc = "call"
    /\ result' = combine_tables(tables)
    /\ pc' = "done"
    /\ UNCHANGED <<tables, field_description, rename, value,
                   field_descriptions, record, string, data, filters,
                   filepath, filename_formatter, index, files, dirs, copied,
                   entry_data, calls, glyphs, css>>

NextCombine == CombineTables

SpecCombine == InitCombine /\ [][NextCombine]_vars

\* the tables that define field F for key K
Defining(K, F) ==
    {i \in 1..Len(tables) : K \in DOMAIN tables[i] /\ F \in DOMAIN tables[i][K]}

\* C1: combine_tables returns without error; its key set is the union of the
\* tables' key sets; a field of a key is present iff some table defines it,
\* and holds the value of the last table (in argument order) that defines it.
C1_CombineIsLastWinsUnion ==
    pc = "done" =>
        /\ result.ok
        /\ DOMAIN result.val = UNION {DOMAIN tables[i] : i \in 1..Len(tables)}
        /\ \A K \in DOMAIN result.val :
             /\ DOMAIN result.val[K] =
                  {F \in {"name", "glyph"} : Defining(K, F) # {}}
             /\ \A F \in DOMAIN result.val[K] :
                  result.val[K][F] = tables[Greatest(Defining(K, F))][K][F]

\* two tables define name for one code with different values, and another
\* code is in one table only
C1_Witness ==
    /\ pc = "done" /\ result.ok /\ Len(tables) = 2
    /\ \E K \in Codes :
         /\ Defining(K, "name") = {1, 2}
         /\ tables[1][K]["name"] # tables[2][K]["name"]
         /\ "glyph" \in DOMAIN tables[1][K] /\ "glyph" \notin DOMAIN tables[2][K]
    /\ \E K \in Codes : K \in DOMAIN tables[2] /\ K \notin DOMAIN tables[1]

(***************************************************************************)
(* SpecCamel: to_camel_case(string)                                        *)
(***************************************************************************)
MaxLen == 4

CamelAlphabet == {"a", "B", "1", "-", "_", "."}

InitCamel ==
    /\ pc = "call" /\ result = Unused
    /\ string \in SeqsOf(CamelAlphabet, 0, MaxLen)
    /\ data = Unused
    /\ IdleCombine /\ IdleField /\ IdleRecord /\ IdleFilter /\ IdleExport
    /\ IdleSources

ToCamelCase ==
    /\ pc = "call"
    /\ result' = to_camel_case(string)
    /\ pc' = "done"
    /\ UNCHANGED <<tables, field_description, rename, value,
                   field_descriptions, record, string, data, filters,
                   filepath, filename_formatter, index, files, dirs, copied,
                   entry_data, calls, glyphs, css>>

NextCamel == ToCamelCase

SpecCamel == InitCamel /\ [][NextCamel]_vars

\* string without its separators, the character after a separator upper-cased
RECURSIVE SeparatorsRemoved(_, _)
SeparatorsRemoved(s, i) ==
    IF i > Len(s) THEN <<>>
    ELSE (IF IsSep(s[i]) THEN <<>>
          ELSE IF i > 1 /\ IsSep(s[i - 1]) THEN <<UpperChar(s[i])>>
          ELSE <<s[i]>>) \o SeparatorsRemoved(s, i + 1)

\* every separator of s has a letter or a digit right after it
SeparatorsJoinWords(s) ==
    \A i \in 1..Len(s) :
        IsSep(s[i]) => i < Len(s) /\ s[i + 1] \in Letters \cup Digits

\* C4 as stated: for any string, to_camel_case removes every '-' and '_' and
\* upper-cases the character that followed each, leaving the rest unchanged.
C4_AnyString ==
    pc = "done" => result = SeparatorsRemoved(string, 1)

\* C4 amended: the same, for the strings in which every separator is
\* immediately followed by a letter or a digit.
C4_JoinedWords ==
    (pc = "done" /\ SeparatorsJoinWords(string))
        => result = SeparatorsRemoved(string, 1)

\* a string with two separators, each followed by a letter or a digit
C4_Witness ==
    /\ pc = "done" /\ SeparatorsJoinWords(string)
    /\ Cardinality({i \in 1..Len(string) : IsSep(string[i])}) >= 2
    /\ Len(result) = Len(string) - 2

(***************************************************************************)
(* SpecField: FieldFormatter(field_description, rename) and                *)
(* apply_modifiers(value)                                                  *)
(***************************************************************************)
MaxTokens == 4

\* what stands between the colons of a description: nothing, or one word
TokenWords == {"", "name", "x", "upper", "lower", "bogus"}

\* ':'.join(tokens)
RECURSIVE Join(_)
Join(toks) ==
    IF toks = <<>> THEN <<>>
    ELSE (IF toks[1] = "" THEN <<>> ELSE <<toks[1]>>)
         \o (IF Len(toks) > 1 THEN <<":">> \o Join(Tail(toks)) ELSE <<>>)

FieldValues == {StrVal(<<"a", "-", "B">>), IntVal(5)}

InitField ==
    /\ pc = "call" /\ result = Unused
    /\ field_description \in {Join(toks) : toks \in SeqsOf(TokenWords, 1, MaxTokens)}
    /\ rename \in BOOLEAN
    /\ value \in FieldValues
    /\ data = Unused
    /\ IdleCombine /\ IdleRecord /\ IdleCamel /\ IdleFilter /\ IdleExport
    /\ IdleSources

\* self = FieldFormatter(field_description, rename)
Construct ==
    /\ pc = "call"
    /\ result' = [formatter |-> FieldFormatter(field_description, rename)]
    /\ pc' = "constructed"
    /\ UNCHANGED <<tables, field_description, rename, value,
                   field_descriptions, record, string, data, filters,
                   filepath, filename_formatter, index, files, dirs, copied,
                   entry_data, calls, glyphs, css>>

\* self.apply_modifiers(value)
ApplyModifiers ==
    /\ pc = "constructed"
    /\ result' = [formatter |-> result.formatter,
                  modified |-> apply_modifiers(result.formatter.modifiers, value)]
    /\ pc' = "done"
    /\ UNCHANGED <<tables, field_description, rename, value,
                   field_descriptions, record, string, data, filters,
                   filepath, filename_formatter, index, files, dirs, copied,
                   entry_data, calls, glyphs, css>>

NextField == Construct \/ ApplyModifiers

SpecField == InitField /\ [][NextField]_vars

\* the tokens t0..tn of a description, read off the positions of its colons
Colons(d) == {i \in 1..Len(d) : d[i] = ":"}
NumTokens(d) == Cardinality(Colons(d)) + 1
\* the position of the k-th colon; 0 before the first, Len + 1 after the last
ColonAt(d, k) ==
    IF k = 0 THEN 0
    ELSE IF k > Cardinality(Colons(d)) THEN Len(d) + 1
    ELSE CHOOSE i \in Colons(d) : Cardinality({j \in Colons(d) : j <= i}) = k
\* the token t(k-1)
TokenAt(d, k) ==
    IF ColonAt(d, k) = ColonAt(d, k - 1) + 1 THEN "" ELSE d[ColonAt(d, k - 1) + 1]

\* the registered tokens among t(from-1)..tn, in their order
ChainOf(d, from) ==
    LET all == [k \in 1..NumTokens(d) |-> TokenAt(d, k)]
        Registered(m) == m \in {"camelcase", "upper", "lower"}
    IN  SelectSeq(SubSeq(all, from, NumTokens(d)), Registered)

\* a chain applied to a str, the last modifier outermost
RECURSIVE Chained(_, _)
Chained(chain, s) ==
    IF chain = <<>> THEN s
    ELSE LET inner == Chained(SubSeq(chain, 1, Len(chain) - 1), s)
             m == chain[Len(chain)]
         IN  IF m = "upper" THEN upper(inner)
             ELSE IF m = "lower" THEN lower(inner)
             ELSE to_camel_case(inner)

\* C2: with rename allowed the source name is t0, the output name t1 when a
\* second token is present and t0 otherwise, the chain the registered tokens
\* among t2..tn in order; without rename the output name is t0 and the chain
\* the registered tokens among t1..tn.  apply_modifiers applies the chain
\* left to right.
C2_ParseAndApply ==
    /\ pc \in {"constructed", "done"} =>
         /\ result.formatter.name = TokenAt(field_description, 1)
         /\ result.formatter.new_name =
              (IF rename /\ NumTokens(field_description) > 1
               THEN TokenAt(field_description, 2)
               ELSE TokenAt(field_description, 1))
         /\ result.formatter.modifiers =
              ChainOf(field_description, IF rename THEN 3 ELSE 2)
    /\ (pc = "done" /\ value.t = "str") =>
         /\ result.modified.ok
         /\ result.modified.val =
              StrVal(Chained(ChainOf(field_description, IF rename THEN 3 ELSE 2),
                             value.s))

\* "name:bogus:upper:lower" without rename: the unregistered token is
\* dropped and the order of the chain of two shows in the value
C2_Witness ==
    /\ pc = "done" /\ ~rename /\ value.t = "str"
    /\ NumTokens(field_description) = 4
    /\ TokenAt(field_description, 2) = "bogus"
    /\ result.formatter.new_name = "name"
    /\ result.formatter.modifiers = <<"upper", "lower">>
    /\ result.modified.val = StrVal(<<"a", "-", "b">>)

(***************************************************************************)
(* SpecRecord: RecordFormatter(field_descriptions).format(record)          *)
(***************************************************************************)
MaxSpecs == 2

\* the descriptions "f", "f:x" and "f:x:upper" of three fields
FormatDescs ==
    {Join(toks) : toks \in
        {<<f>> : f \in {"name", "glyph", "paths"}}
        \cup {<<f, "x">> : f \in {"name", "glyph", "paths"}}
        \cup {<<f, "x", "upper">> : f \in {"name", "glyph", "paths"}}}

\* records whose fields are missing, falsy or truthy
FormatRecords ==
    {r \in DictsOf({"name", "glyph", "paths"},
                   {StrVal(<<>>), StrVal(<<"a", "-", "b">>), IntVal(0), IntVal(5),
                    ListVal(<<>>), ListVal(<< <<"M">> >>)}) :
        /\ "name" \in DOMAIN r => r["name"].t = "str"
        /\ "glyph" \in DOMAIN r => r["glyph"].t = "int"
        /\ "paths" \in DOMAIN r => r["paths"].t = "list"}

InitRecord ==
    /\ pc = "call" /\ result = Unused
    /\ field_descriptions \in SeqsOf(FormatDescs, 0, MaxSpecs)
    /\ record \in FormatRecords
    /\ data = Unused
    /\ IdleCombine /\ IdleField /\ IdleCamel /\ IdleFilter /\ IdleExport
    /\ IdleSources

\* RecordFormatter(field_descriptions).format(record); record is only read
FormatRecord ==
    /\ pc = "call"
    /\ result' = RecordFormat(RecordFormatter(field_descriptions), record)
    /\ pc' = "done"
    /\ UNCHANGED <<tables, field_description, rename, value,
                   field_descriptions, record, string, data, filters,
                   filepath, filename_formatter, index, files, dirs, copied,
                   entry_data, calls, glyphs, css>>

NextRecord == FormatRecord

SpecRecord == InitRecord /\ [][NextRecord]_vars

\* the i-th spec's source field is present in record with a truthy value
SourceTruthy(i) ==
    LET f == TokenAt(field_descriptions[i], 1)
    IN  /\ f \in DOMAIN record
        /\ record[f] \notin {StrVal(<<>>), IntVal(0), ListVal(<<>>)}
\* the i-th spec's output name
OutName(i) ==
    IF NumTokens(field_descriptions[i]) > 1
    THEN TokenAt(field_descriptions[i], 2) ELSE TokenAt(field_descriptions[i], 1)
\* the i-th spec's source value after its modifiers (a str when it has any)
Transformed(i) ==
    LET val == record[TokenAt(field_descriptions[i], 1)]
        chain == ChainOf(field_descriptions[i], 3)
    IN  IF chain = <<>> THEN val ELSE StrVal(Chained(chain, val.s))
\* the i-th spec applies a modifier to a truthy value that is no str
ModifiesNonStr(i) ==
    /\ SourceTruthy(i)
    /\ ChainOf(field_descriptions[i], 3) # <<>>
    /\ record[TokenAt(field_descriptions[i], 1)].t # "str"
Specs == 1..Len(field_descriptions)

MaxData == 2
MaxFilters == 2

\* records with a str field, missing or not, and a list field, missing or not
FilterRecords ==
    {r \in DictsOf({"name", "paths"},
                   {StrVal(<<"a">>), StrVal(<<"a", "b">>), ListVal(<< <<"a">> >>)}) :
        /\ "name" \in DOMAIN r => r["name"].t = "str"
        /\ "paths" \in DOMAIN r => r["paths"].t = "list"}

\* the patterns a, a$ and b
Patterns == {<<"a">>, <<"a", "$">>, <<"b">>}

InitFilter ==
    /\ pc = "call" /\ result = Unused
    /\ data \in SeqsOf(FilterRecords, 0, MaxData)
    /\ filters \in SeqsOf({"name", "paths"} \X Patterns, 0, MaxFilters)
    /\ IdleCombine /\ IdleField /\ IdleRecord /\ IdleCamel /\ IdleExport
    /\ IdleSources

FilterRecordsCall ==
    /\ pc = "call"
    /\ result' = filter_records(data, filters)
    /\ pc' = "done"
    /\ UNCHANGED <<tables, field_description, rename, value,
                   field_descriptions, record, string, data, filters,
                   filepath, filename_formatter, index, files, dirs, copied,
                   entry_data, calls, glyphs, css>>

NextFilter == FilterRecordsCall

SpecFilter == InitFilter /\ [][NextFilter]_vars

\* record r carries the field of the k-th predicate
Carries(r, k) == filters[k][1] \in DOMAIN r
\* ... and its value is a str
CarriesStr(r, k) == Carries(r, k) /\ r[filters[k][1]].t = "str"
\* the k-th pattern matches a prefix of the str value s: the literals of the
\* pattern are the first characters of s, and s ends there if "$" follows
PrefixMatches(k, s) ==
    LET p == filters[k][2]
        lits == SelectSeq(p, LAMBDA c : c # "$")
    IN  /\ Len(lits) <= Len(s)
        /\ SubSeq(s, 1, Len(lits)) = lits
        /\ p[Len(p)] = "$" => Len(s) = Len(lits)
\* record r passes the k-th predicate
Passes(r, k) == CarriesStr(r, k) /\ PrefixMatches(k, r[filters[k][1]].s)
Preds == 1..Len(filters)

LacksField(r) == \E k \in Preds : ~Carries(r, k)

\* C6 as stated: whenever a record lacks a field named by any predicate, the
\* evaluation fails with a lookup error, whatever the position of that
\* predicate and the outcome of the others.
C6_AlwaysLookupError ==
    (pc = "done" /\ \E n \in 1..Len(data) : LacksField(data[n]))
        => ~result.ok /\ result.err = "KeyError"

\* the first predicate whose field r lacks comes after predicates r passes
LookupReached(r) ==
    \E k \in Preds :
        /\ ~Carries(r, k)
        /\ \A j \in 1..(k - 1) : Passes(r, j)
\* evaluating the predicates on r raises a TypeError: a value that is no str
\* is reached
TypeErrorReached(r) ==
    \E k \in Preds :
        /\ Carries(r, k) /\ ~CarriesStr(r, k)
        /\ \A j \in 1..(k - 1) : Passes(r, j)

\* C6 amended: match_filters raises a lookup error on a record exactly when
\* the record lacks the field of a predicate and passes every predicate
\* before it; filter_records then raises it, unless an earlier record
\* raised first.  A record that fails a predicate placed before the one whose
\* field it lacks is excluded without error.
C6_LookupErrorIfReached ==
    pc = "done" =>
        /\ \A n \in 1..Len(data) :
             (match_filters(data[n], filters) = Raise("KeyError"))
                <=> LookupReached(data[n])
        /\ (\E n \in 1..Len(data) :
              /\ LookupReached(data[n])
              /\ \A m \in 1..(n - 1) :
                   ~LookupReached(data[m]) /\ ~TypeErrorReached(data[m]))
             <=> result = Raise("KeyError")
        /\ (\A n \in 1..Len(data) :
              ~LookupReached(data[n]) /\ ~TypeErrorReached(data[n]))
             => /\ result.ok
                /\ \A n \in 1..Len(data) : LacksField(data[n]) =>
                     \A i \in 1..Len(result.val) : result.val[i] # data[n]

\* a record that lacks the field of the second predicate and passes the
\* first: the evaluation raises the lookup error
C6_Witness ==
    /\ pc = "done" /\ result = Raise("KeyError")
    /\ Len(filters) = 2 /\ Len(data) = 2
    /\ ~Carries(data[2], 2) /\ Passes(data[2], 1)
    /\ ~LacksField(data[1])

(***************************************************************************)
(* SpecExport: export_svg(filepath, data, record_formatter), called once   *)
(* per output directive on the same records                                *)
(***************************************************************************)
MaxRecords == 2
MaxExports == 2

\* "{group}/{code:upper}.svg", "out/{code:upper}_{code}.svg", "out",
\* "{code}.svg" and "out/{glyph:upper}/{name}.svg"
FilePaths ==
    {<<"{", "group", "}", "/", "{", "code", ":", "upper", "}", ".svg">>,
     <<"out", "/", "{", "code", ":", "upper", "}", "_", "{", "code", "}", ".svg">>,
     <<"out">>,
     <<"{", "code", "}", ".svg">>,
     <<"out", "/", "{", "glyph", ":", "upper", "}", "/", "{", "name", "}", ".svg">>}

\* the svg file generate_svgs made for the n-th glyph, in directory svg
SvgFile(n) == <<"svg", "/">> \o IntStr(n) \o <<".svg">>

\* the records to export: name may be missing or empty
ExportRecords(n) ==
    {[code |-> StrVal(c), group |-> StrVal(<<"m", "d">>), glyph |-> IntVal(5),
      svgfile |-> StrVal(SvgFile(n))] : c \in Codes}
    \cup {[code |-> StrVal(c), name |-> StrVal(nm), group |-> StrVal(<<"m", "d">>),
           glyph |-> IntVal(5), svgfile |-> StrVal(SvgFile(n))] :
            c \in Codes, nm \in {<<>>, <<"a", "-", "b">>}}

InitExport ==
    /\ pc = "call" /\ result = Unused
    /\ data \in {d \in SeqsOf(UNION {ExportRecords(n) : n \in 1..MaxRecords}, 0, MaxRecords) :
                    \A n \in 1..Len(d) : d[n] \in ExportRecords(n)}
    /\ filepath \in FilePaths
    /\ filename_formatter = Unused /\ index = 0
    /\ files = [f \in {SvgFile(n) : n \in 1..Len(data)} |->
                  CHOOSE n \in 1..Len(data) : f = SvgFile(n)]
    /\ dirs = {<<"svg">>}
    /\ copied = <<>> /\ entry_data = data /\ calls = 0
    /\ IdleCombine /\ IdleField /\ IdleRecord /\ IdleCamel /\ IdleFilter
    /\ IdleSources

\* export_svg up to its for loop
ExportCall ==
    /\ pc = "call"
    /\ filename_formatter' = ExportFormatter(filepath)
    /\ index' = 1 /\ entry_data' = data /\ calls' = calls + 1
    /\ pc' = "loop"
    /\ UNCHANGED <<result, tables, field_description, rename, value,
                   field_descriptions, record, string, data, filters,
                   filepath, files, dirs, copied, glyphs, css>>

\* the state after one pass of the for loop
Passed(pass) ==
    /\ files' = pass.files /\ dirs' = pass.dirs
    /\ copied' = copied \o pass.copied
    /\ data' = [data EXCEPT ![index] = pass.record]
    /\ IF pass.result.ok
       THEN index' = index + 1 /\ pc' = "loop" /\ result' = result
       ELSE index' = index /\ pc' = "raised" /\ result' = pass.result

\* one pass of the for loop
ExportStep ==
    /\ pc = "loop" /\ index <= Len(data)
    /\ Passed(ExportRecord(filename_formatter, data[index], files, dirs))
    /\ UNCHANGED <<tables, field_description, rename, value,
                   field_descriptions, record, string, filters, filepath,
                   filename_formatter, entry_data, calls, glyphs, css>>

\* return data
ExportReturn ==
    /\ pc = "loop" /\ index > Len(data)
    /\ result' = Ok(data)
    /\ pc' = "returned"
    /\ UNCHANGED <<tables, field_description, rename, value,
                   field_descriptions, record, string, data, filters,
                   filepath, filename_formatter, index, files, dirs, copied,
                   entry_data, calls, glyphs, css>>

\* the next output directive: another export of the same records
ExportAgain ==
    /\ pc = "returned" /\ calls < MaxExports
    /\ filepath' \in FilePaths
    /\ pc' = "call"
    /\ UNCHANGED <<result, tables, field_description, rename, value,
                   field_descriptions, record, string, data, filters,
                   filename_formatter, index, files, dirs, copied,
                   entry_data, calls, glyphs, css>>

NextExport == ExportCall \/ ExportStep \/ ExportReturn \/ ExportAgain

SpecExport == InitExport /\ [][NextExport]_vars

\* the template export_svg renders: filepath, with the default file name
\* inside it when it does not end with the extension
Template ==
    IF filepath[Len(filepath)] = ".svg" THEN filepath
    ELSE filepath \o <<"/">> \o DefaultFilename \o <<".svg">>
\* the positions of the placeholders of template t, and where each ends
Placeholders(t) == {i \in 1..Len(t) : t[i] = "{"}
ClosingOf(t, i) == Least({j \in i..Len(t) : t[j] = "}"})
\* the modifiers of the placeholder at i, in order
PlaceholderChain(t, i) ==
    SelectSeq(SubSeq(t, i + 2, ClosingOf(t, i) - 1),
              LAMBDA m : m \in {"camelcase", "upper", "lower"})
\* field f is missing from rec, or falsy
Absent(rec, f) ==
    f \notin DOMAIN rec \/ rec[f] \in {StrVal(<<>>), IntVal(0), ListVal(<<>>)}
\* some placeholder of t names a field that rec lacks
MissingReferenced(t, rec) == \E i \in Placeholders(t) : Absent(rec, t[i + 1])
\* some placeholder of t applies a modifier to a truthy value that is no str
ModifiedNonStr(t, rec) ==
    \E i \in Placeholders(t) :
        /\ ~Absent(rec, t[i + 1])
        /\ rec[t[i + 1]].t # "str"
        /\ PlaceholderChain(t, i) # <<>>
\* t with each placeholder replaced by its field's value after its modifiers
RECURSIVE Rendered(_, _, _)
Rendered(t, rec, i) ==
    IF i > Len(t) THEN <<>>
    ELSE IF t[i] = "{"
    THEN (IF PlaceholderChain(t, i) = <<>> THEN PyStr(rec[t[i + 1]])
          ELSE Chained(PlaceholderChain(t, i), rec[t[i + 1]].s))
         \o Rendered(t, rec, ClosingOf(t, i) + 1)
    ELSE <<t[i]>> \o Rendered(t, rec, i + 1)

\* the pass of the loop that is about to run meets a record that lacks a
\* field of the template
AtMissing ==
    pc = "loop" /\ index <= Len(data) /\ MissingReferenced(Template, data[index])
\* the pass raises and leaves the file system and the records as they were
RaisesUntouched ==
    /\ pc' = "raised" /\ ~result'.ok
    /\ files' = files /\ dirs' = dirs /\ copied' = copied /\ data' = data

C8_DestinationIsTemplateRendered ==
    pc \in {"loop", "raised", "returned"} =>
        \A j \in 1..(index - 1) :
            (~MissingReferenced(Template, entry_data[j])
             /\ ~ModifiedNonStr(Template, entry_data[j]))
                => /\ data[j]["svgfile"] = StrVal(Rendered(Template, entry_data[j], 1))
                   /\ Dirname(data[j]["svgfile"].s) \in dirs

\* C10: when export_svg completes it returns data; the records are the ones
\* it was given, in their order, changed in svgfile only; each svgfile is the
\* destination rendered for the record; the copies were made record by
\* record in input order, each from the svgfile the record held at the call.
\* While the loop runs the records not yet reached are unchanged.
C10_OnlySvgfileRewritten ==
    /\ pc \in {"loop", "raised", "returned"} =>
         /\ Len(data) = Len(entry_data)
         /\ \A j \in 1..Len(data) :
              /\ DOMAIN data[j] = DOMAIN entry_data[j]
              /\ \A f \in DOMAIN data[j] \ {"svgfile"} : data[j][f] = entry_data[j][f]
         /\ \A j \in index..Len(data) : data[j] = entry_data[j]
    /\ pc = "returned" =>
         /\ result = Ok(data)
         /\ Len(copied) >= Len(data)
         /\ \A j \in 1..Len(data) :
              /\ data[j]["svgfile"] =
                   StrVal(FilenameFormat(ExportFormatter(filepath), entry_data[j]).val)
              /\ copied[Len(copied) - Len(data) + j] =
                   <<entry_data[j]["svgfile"].s, data[j]["svgfile"].s>>
              /\ data[j]["svgfile"].s \in DOMAIN files

\* a second export of two records completed: its copies came from the first
\* export's destinations
C10_Witness ==
    /\ pc = "returned" /\ calls = 2 /\ Len(data) = 2 /\ Len(copied) = 4
    /\ copied[3][1] = copied[1][2] /\ copied[4][1] = copied[2][2]
    /\ data[1]["svgfile"].s = copied[3][2]
    /\ data[1]["svgfile"] # entry_data[1]["svgfile"]

(***************************************************************************)
(* SpecSources: create_raw_data builds the css, glyph and svg tables; the  *)
(* svg geometry is then extracted and the tables are combined.             *)
(***************************************************************************)
MaxGlyphs == 3
MaxRules == 2

\* the glyphs of the font: U+E9, U+EA and an unencoded one
FontGlyphs ==
    {[codepoint |-> <<"U", "+", "E", "9">>, glyphname |-> "a"],
     [codepoint |-> <<"U", "+", "E", "A">>, glyphname |-> "b"],
     [codepoint |-> <<>>, glyphname |-> "x"]}

\* the icon rules of the css file: nf-md-a and nf-md-a-b
CssRules ==
    [name : {<<"md", "-", "a">>, <<"md", "-", "a", "-", "b">>}, code : Codes]

\* svgdir = os.path.join(svgdir, '')
SvgDir == PathJoin(<<"svg">>, <<>>)

InitSources ==
    /\ pc = "css" /\ result = Unused
    /\ glyphs \in SeqsOf(FontGlyphs, 0, MaxGlyphs)
    /\ css \in SeqsOf(CssRules, 0, MaxRules)
    /\ files = EmptyDict /\ dirs = {}
    /\ data = Unused
    /\ filepath = Unused /\ filename_formatter = Unused /\ index = Unused
    /\ copied = Unused /\ entry_data = Unused /\ calls = Unused
    /\ IdleCombine /\ IdleField /\ IdleRecord /\ IdleCamel /\ IdleFilter

\* table = extract_from_css(...)
ExtractFromCss ==
    /\ pc = "css"
    /\ IF extract_from_css(css).ok
       THEN result' = [table |-> extract_from_css(css).val] /\ pc' = "glyphs"
       ELSE result' = extract_from_css(css) /\ pc' = "raised"
    /\ UNCHANGED <<tables, field_description, rename, value,
                   field_descriptions, record, string, data, filters,
                   filepath, filename_formatter, index, files, dirs, copied,
                   entry_data, calls, glyphs, css>>

\* glyph_data = extract_from_glyphs(get_glyphs(font))
ExtractFromGlyphs ==
    /\ pc = "glyphs"
    /\ result' = [table |-> result.table,
                  glyph_data |-> extract_from_glyphs(get_glyphs(glyphs))]
    /\ pc' = "svgs"
    /\ UNCHANGED <<tables, field_description, rename, value,
                   field_descriptions, record, string, data, filters,
                   filepath, filename_formatter, index, files, dirs, copied,
                   entry_data, calls, glyphs, css>>

\* os.makedirs(svgdir); svg_files = generate_svgs(get_glyphs(font), svgdir)
GenerateSvgs ==
    /\ pc = "svgs"
    /\ dirs' = dirs \cup {<<"svg">>}
    /\ files' = GeneratedFiles(get_glyphs(glyphs), SvgDir)
    /\ result' = [table |-> result.table, glyph_data |-> result.glyph_data,
                  svg_files |-> generate_svgs(get_glyphs(glyphs), SvgDir)]
    /\ pc' = "geometry"
    /\ UNCHANGED <<tables, field_description, rename, value,
                   field_descriptions, record, string, data, filters,
                   filepath, filename_formatter, index, copied,
                   entry_data, calls, glyphs, css>>

\* extract_from_svgs(svg_files)
ExtractFromSvgs ==
    /\ pc = "geometry"
    /\ result' = [table |-> result.table, glyph_data |-> result.glyph_data,
                  svg_files |-> result.svg_files,
                  svg_data |-> extract_from_svgs(result.svg_files, files)]
    /\ pc' = "combine"
    /\ UNCHANGED <<tables, field_description, rename, value,
                   field_descriptions, record, string, data, filters,
                   filepath, filename_formatter, index, files, dirs, copied,
                   entry_data, calls, glyphs, css>>

\* combine_tables(glyph_data, table, svg_files, svg_data)
CombineSources ==
    /\ pc = "combine"
    /\ tables' = <<result.glyph_data, result.table, result.svg_files, result.svg_data>>
    /\ result' = [table |-> result.table, glyph_data |-> result.glyph_data,
                  svg_files |-> result.svg_files, svg_data |-> result.svg_data,
                  combined |-> combine_tables(tables').val]
    /\ pc' = "done"
    /\ UNCHANGED <<field_description, rename, value,
                   field_descriptions, record, string, data, filters,
                   filepath, filename_formatter, index, files, dirs, copied,
                   entry_data, calls, glyphs, css>>

NextSources ==
    ExtractFromCss \/ ExtractFromGlyphs \/ GenerateSvgs \/ ExtractFromSvgs
        \/ CombineSources

SpecSources == InitSources /\ [][NextSources]_vars

\* the glyphs of the font that have a codepoint, and the code of the n-th
Encoded == SelectSeq(glyphs, LAMBDA g : g.codepoint # <<>>)
CodeOf(n) == [i \in 1..(Len(Encoded[n].codepoint) - 2) |->
                LowerChar(Encoded[n].codepoint[i + 2])]

\* C9: every table is keyed by the icon's code: the key under which
\* generate_svgs stores a glyph's svgfile (and extract_from_svgs its viewbox
\* and paths) is the key under which extract_from_glyphs stores its code and
\* glyphname and extract_from_css its name, so the combined table holds one
\* record per icon with code, glyphname, svgfile (and name, when the css
\* file has the code) together.
C9_TablesKeyedByCode ==
    pc = "done" =>
        \A n \in 1..Len(Encoded) :
            /\ CodeOf(n) \in DOMAIN result.glyph_data
            /\ CodeOf(n) \in DOMAIN result.svg_files
            /\ CodeOf(n) \in DOMAIN result.svg_data
            /\ {"code", "glyphname", "svgfile", "viewbox", "paths"}
                 \subseteq DOMAIN result.combined[CodeOf(n)]
            /\ CodeOf(n) \in DOMAIN result.table
                 => "name" \in DOMAIN result.combined[CodeOf(n)]

(***************************************************************************)
(* The program: any of the entry points above                              *)
(***************************************************************************)
Init ==
    \/ InitCombine \/ InitCamel \/ InitField \/ InitRecord \/ InitFilter
    \/ InitExport \/ InitSources

Next ==
    \/ NextCombine \/ NextCamel \/ NextField \/ NextRecord \/ NextFilter
    \/ NextExport \/ NextSources

Spec == Init /\ [][Next]_vars

====